---- MODULE Spec2Model ----
(***************************************************************************)
(* Spacer allocation engine of the B&K Spacer Calculator.                  *)
(*                                                                         *)
(* Lengths are exact integers in millionths of an inch (0.001 in = 1000),  *)
(* so that thickness * clearance% / 100 and every sum are exact and        *)
(* round(x, 4) is a real operation (rounding to a multiple of 100).        *)
(* A Counter is a function from its key set to integers; a missing key     *)
(* reads as 0.  A combo is a sequence of denominations; None is <<>>.      *)
(***************************************************************************)
EXTENDS Integers, Sequences, FiniteSets, TLC

VARIABLES
    call,          \* find_spacer_combo: the arguments of the call under study
    ret,           \* find_spacer_combo: its return value, once called
    metal,         \* SpacerInventory.metal
    plastic,       \* SpacerInventory.plastic
    file,          \* the inventory file written by SpacerInventory.save
    last,          \* SpacerInventory: the last method call and how it ended
    job,           \* the form fields calculate_spacers reads
    pc,            \* where calculate_spacers stands
    cuts,          \* calculate_spacers: the cut widths, one entry per strip
    i,             \* calculate_spacers: 1-based index of the cut in hand
    job_metal,     \* calculate_spacers: working copy of inventory.metal
    job_plastic,   \* calculate_spacers: working copy of inventory.plastic
    female_combo,  \* calculate_spacers: the female combo of the cut in hand
    female_sum,    \* calculate_spacers: its sum plus the deflection offset
    used_spacers,  \* self.used_spacers
    top_lines,     \* self.top_lines
    bottom_lines,  \* self.bottom_lines
    settings,      \* self.settings
    error,         \* the message of messagebox.showerror, if the run aborted
    searches,      \* log of the find_spacer_combo calls of the run
    before         \* what the application held when the run in hand started

findVars == <<call, ret>>
ledgerVars == <<metal, plastic, file, last>>
runVars == <<job, pc, cuts, i, job_metal, job_plastic, female_combo, female_sum,
             used_spacers, top_lines, bottom_lines, settings, error, searches,
             before>>
vars == <<findVars, ledgerVars, runVars>>

(***************************************************************************)
(* Bounds of the model.                                                    *)
(***************************************************************************)
MaxCount == 2        \* largest count of one denomination in one pool
MaxStackArg == 3     \* largest max_stack handed to find_spacer_combo alone
MaxComboLen == 3     \* longest combo handed to a SpacerInventory method
MaxUnits == 3        \* largest count of one denomination when a job is run

(***************************************************************************)
(* Python building blocks used by the engine.                              *)
(***************************************************************************)
None == <<>>

Range(s) == {s[j] : j \in DOMAIN s}

SetMax(S) == CHOOSE m \in S : \A x \in S : x <= m

SetMin(S) == CHOOSE m \in S : \A x \in S : m <= x

RECURSIVE sum(_)
sum(s) == IF s = <<>> THEN 0 ELSE Head(s) + sum(Tail(s))

\* round(x, 4) of a length x >= 0 held in millionths: nearest multiple of
\* 100, a tie going to the even ten-thousandth.
round4(x) ==
    LET q == x \div 100
        m == x % 100
    IN  IF m < 50 THEN q * 100
        ELSE IF m > 50 THEN (q + 1) * 100
        ELSE IF q % 2 = 0 THEN q * 100 ELSE (q + 1) * 100

\* c[k] of a Counter, c.get(k, 0) of a dict
Get(c, k) == IF k \in DOMAIN c THEN c[k] ELSE 0

\* Counter(combo)
Counter(s) == [k \in Range(s) |-> Cardinality({j \in DOMAIN s : s[j] = k})]

\* a + b of two Counters: counts are added, only positive results are kept
CounterAdd(a, b) ==
    LET ks == {k \in DOMAIN a \cup DOMAIN b : Get(a, k) + Get(b, k) > 0}
    IN  [k \in ks |-> Get(a, k) + Get(b, k)]

\* variant of sorted_desc: reverse=True is left out
RECURSIVE sorted_asc(_)
sorted_asc(S) ==
    IF S = {} THEN <<>>
    ELSE LET m == SetMin(S) IN <<m>> \o sorted_asc(S \ {m})

\* sorted(S, reverse=True)
RECURSIVE sorted_desc(_)
sorted_desc(S) ==
    IF S = {} THEN <<>>
    ELSE LET m == SetMax(S) IN <<m>> \o sorted_desc(S \ {m})

\* itertools.combinations_with_replacement(keys, r) walks the index
\* vectors i1 <= i2 <= ... <= ir over keys, starting at <<1, .., 1>>.
\* Pick is the tuple yielded for one index vector.
Pick(keys, idx) == [j \in DOMAIN idx |-> keys[idx[j]]]

\* the index vector the generator moves to after idx: the rightmost index
\* below n is raised by one and copied to its right; <<>> when exhausted
NextIndices(idx, n) ==
    LET movable == {j \in DOMAIN idx : idx[j] # n}
    IN  IF movable = {} THEN <<>>
        ELSE LET p == SetMax(movable)
             IN  [j \in DOMAIN idx |-> IF j < p THEN idx[j] ELSE idx[p] + 1]

(***************************************************************************)
(* find_spacer_combo                                                       *)
(***************************************************************************)
\* variant of InBand: the sum is compared without round(.., 4)
InBand_NoRound(combo, target, tol_plus, tol_minus) ==
    LET total == sum(combo)
    IN  (target - tol_minus) <= total /\ total <= (target + tol_plus)

\* the tolerance test of one candidate
InBand(combo, target, tol_plus, tol_minus) ==
    LET total == round4(sum(combo))
    IN  (target - tol_minus) <= total /\ total <= (target + tol_plus)

\* variant of WithinCounts: the multiplicity test is left out
WithinCounts_Skipped(combo, inv) == TRUE

\* the multiplicity test of one candidate against the counter inv
WithinCounts(combo, inv) ==
    LET tmp == Counter(combo)
    IN  \A k \in DOMAIN tmp : tmp[k] <= Get(inv, k)

\* for combo in combinations_with_replacement(keys, r): the first tuple
\* from idx on that passes both tests, None when the generator runs out
RECURSIVE Walk(_, _, _, _, _, _)
Walk(keys, inv, target, tol_plus, tol_minus, idx) ==
    IF idx = <<>> THEN None
    ELSE LET combo == Pick(keys, idx)
         IN  IF /\ InBand(combo, target, tol_plus, tol_minus)
                /\ WithinCounts(combo, inv)
             THEN combo
             ELSE Walk(keys, inv, target, tol_plus, tol_minus,
                       NextIndices(idx, Len(keys)))

\* the generator yields nothing when keys is empty
FirstIndices(keys, r) == IF keys = <<>> THEN <<>> ELSE [j \in 1..r |-> 1]

\* variant of SearchPass: the largest cardinality is tried first
RECURSIVE SearchPass_LargestFirst(_, _, _, _, _, _, _)
SearchPass_LargestFirst(keys, inv, target, tol_plus, tol_minus, r, max_stack) ==
    IF r > max_stack THEN None
    ELSE LET deeper == SearchPass_LargestFirst(keys, inv, target, tol_plus,
                                               tol_minus, r + 1, max_stack)
         IN  IF deeper # None THEN deeper
             ELSE Walk(keys, inv, target, tol_plus, tol_minus, FirstIndices(keys, r))

\* for r in range(r, max_stack+1): the first accepted tuple of the smallest
\* cardinality that has one, None when every cardinality runs out
RECURSIVE SearchPass(_, _, _, _, _, _, _)
SearchPass(keys, inv, target, tol_plus, tol_minus, r, max_stack) ==
    IF r > max_stack THEN None
    ELSE LET hit == Walk(keys, inv, target, tol_plus, tol_minus, FirstIndices(keys, r))
         IN  IF hit # None THEN hit
             ELSE SearchPass(keys, inv, target, tol_plus, tol_minus, r + 1, max_stack)

keys_metal(metal_inv) ==
    sorted_desc({k \in DOMAIN metal_inv : metal_inv[k] > 0})

keys_all(metal_inv, plastic_inv) ==
    LET inv == CounterAdd(metal_inv, plastic_inv)
    IN  sorted_desc({k \in DOMAIN inv : inv[k] > 0})

\* variant of find_spacer_combo: the metal-only pass is never run
find_spacer_combo_UnionOnly(target, tol_plus, tol_minus, metal_inv, plastic_inv, prefer_metal, max_stack) ==
    LET u == SearchPass(keys_all(metal_inv, plastic_inv),
                        CounterAdd(metal_inv, plastic_inv),
                        target, tol_plus, tol_minus, 1, max_stack)
    IN  IF u # None THEN [combo |-> u, flag |-> "False"]
        ELSE [combo |-> None, flag |-> "None"]

find_spacer_combo(target, tol_plus, tol_minus, metal_inv, plastic_inv, prefer_metal, max_stack) ==
    LET m == IF prefer_metal
             THEN SearchPass(keys_metal(metal_inv), metal_inv,
                             target, tol_plus, tol_minus, 1, max_stack)
             ELSE None
    IN  IF m # None THEN [combo |-> m, flag |-> "True"]
        ELSE LET u == SearchPass(keys_all(metal_inv, plastic_inv),
                                 CounterAdd(metal_inv, plastic_inv),
                                 target, tol_plus, tol_minus, 1, max_stack)
             IN  IF u # None THEN [combo |-> u, flag |-> "False"]
                 ELSE [combo |-> None, flag |-> "None"]

(***************************************************************************)
(* Specification of find_spacer_combo alone: the arguments are drawn from  *)
(* bounded sets and the function is applied once.                          *)
(***************************************************************************)
FindMetalKeys == {65000, 63000}
FindPlasticKeys == {125000, 63000, 62040}
FindTargets == {63000, 126000, 127040, 189000}
FindTols == {<<0, 0>>, <<1000, 1000>>, <<5000, 0>>}

EmptyCounter == [k \in {} |-> 0]
NoCall == [op |-> "none"]
NoRet == [combo |-> None, flag |-> "pending"]
NoLast == [op |-> "none"]
NoFile == [metal |-> <<>>, plastic |-> <<>>]
NoJob == [cut_sizes |-> <<>>]
NoBefore == [ran |-> FALSE]

\* the application is not part of the behaviour
AppIdle ==
    /\ job = NoJob
    /\ pc = "off"
    /\ cuts = <<>>
    /\ i = 0
    /\ job_metal = EmptyCounter
    /\ job_plastic = EmptyCounter
    /\ female_combo = None
    /\ female_sum = 0
    /\ used_spacers = EmptyCounter
    /\ top_lines = <<>>
    /\ bottom_lines = <<>>
    /\ settings = <<>>
    /\ error = "none"
    /\ searches = <<>>
    /\ before = NoBefore

InitFind ==
    /\ \E target \in FindTargets, tol \in FindTols,
          metal_inv \in [FindMetalKeys -> 0..MaxCount],
          plastic_inv \in [FindPlasticKeys -> 0..MaxCount],
          prefer_metal \in BOOLEAN, max_stack \in 1..MaxStackArg :
            call = [op |-> "find", target |-> target,
                    tol_plus |-> tol[1], tol_minus |-> tol[2],
                    metal_inv |-> metal_inv, plastic_inv |-> plastic_inv,
                    prefer_metal |-> prefer_metal, max_stack |-> max_stack]
    /\ ret = NoRet
    /\ metal = EmptyCounter
    /\ plastic = EmptyCounter
    /\ file = NoFile
    /\ last = NoLast
    /\ AppIdle

CallFind ==
    /\ call.op = "find"
    /\ ret = NoRet
    /\ ret' = find_spacer_combo(call.target, call.tol_plus, call.tol_minus,
                                call.metal_inv, call.plastic_inv,
                                call.prefer_metal, call.max_stack)
    /\ UNCHANGED <<call, ledgerVars, runVars>>

NextFind == CallFind

SpecFind == InitFind /\ [][NextFind]_vars

\* find_spacer_combo with the two check boxes of the form: "Minimize
\* Plastic Shims" and "Smart Inventory Balancing"
InitToggles ==
    /\ \E target \in FindTargets, tol \in FindTols,
          metal_inv \in [FindMetalKeys -> 0..MaxCount],
          plastic_inv \in [FindPlasticKeys -> 0..MaxCount],
          prefer_metal \in BOOLEAN,
          minimize_shims \in {0, 1}, smart_balance \in {0, 1} :
            call = [op |-> "find_toggles", target |-> target,
                    tol_plus |-> tol[1], tol_minus |-> tol[2],
                    metal_inv |-> metal_inv, plastic_inv |-> plastic_inv,
                    prefer_metal |-> prefer_metal, max_stack |-> MaxStackArg,
                    minimize_shims |-> minimize_shims,
                    smart_balance |-> smart_balance]
    /\ ret = NoRet
    /\ metal = EmptyCounter
    /\ plastic = EmptyCounter
    /\ file = NoFile
    /\ last = NoLast
    /\ AppIdle

\* variant of CallFindToggles: without "Minimize Plastic Shims" the metal
\* pass is left out
CallFindToggles_ShimsHonoured ==
    /\ call.op = "find_toggles"
    /\ ret = NoRet
    /\ \E minimize_shims \in {call.minimize_shims},
          smart_balance \in {call.smart_balance} :
           ret' = find_spacer_combo(call.target, call.tol_plus, call.tol_minus,
                                    call.metal_inv, call.plastic_inv,
                                    call.prefer_metal /\ minimize_shims = 1,
                                    call.max_stack)
    /\ UNCHANGED <<call, ledgerVars, runVars>>

\* lines 605-624: the two check boxes are read, and the search goes on
\* without them
CallFindToggles ==
    /\ call.op = "find_toggles"
    /\ ret = NoRet
    /\ \E minimize_shims \in {call.minimize_shims},
          smart_balance \in {call.smart_balance} :
           ret' = find_spacer_combo(call.target, call.tol_plus, call.tol_minus,
                                    call.metal_inv, call.plastic_inv,
                                    call.prefer_metal, call.max_stack)
    /\ UNCHANGED <<call, ledgerVars, runVars>>

NextToggles == CallFindToggles

SpecToggles == InitToggles /\ [][NextToggles]_vars

(***************************************************************************)
(* SpacerInventory                                                         *)
(***************************************************************************)
\* variant of UseLoop: the metal branch tests the key only, not its count
RECURSIVE UseLoop_KeyOnly(_, _, _)
UseLoop_KeyOnly(m, p, combo) ==
    IF combo = <<>> THEN [metal |-> m, plastic |-> p, raised |-> FALSE]
    ELSE LET sz == Head(combo)
         IN  IF sz \in DOMAIN m
             THEN UseLoop_KeyOnly([m EXCEPT ![sz] = @ - 1], p, Tail(combo))
             ELSE IF Get(p, sz) > 0
             THEN UseLoop_KeyOnly(m, [p EXCEPT ![sz] = @ - 1], Tail(combo))
             ELSE [metal |-> m, plastic |-> p, raised |-> TRUE]

\* the loop of use_spacers over the pieces of combo: one unit is taken from
\* metal, else from plastic, else ValueError is raised where the loop stands
RECURSIVE UseLoop(_, _, _)
UseLoop(m, p, combo) ==
    IF combo = <<>> THEN [metal |-> m, plastic |-> p, raised |-> FALSE]
    ELSE LET sz == Head(combo)
         IN  IF Get(m, sz) > 0
             THEN UseLoop([m EXCEPT ![sz] = @ - 1], p, Tail(combo))
             ELSE IF Get(p, sz) > 0
             THEN UseLoop(m, [p EXCEPT ![sz] = @ - 1], Tail(combo))
             ELSE [metal |-> m, plastic |-> p, raised |-> TRUE]

\* snapshot(): the two pools as plain dicts
snapshot(m, p) == [metal |-> m, plastic |-> p]

\* variant of check_availability: only the metal pool is counted
check_availability_MetalOnly(m, p, combo) ==
    LET test == Counter(combo)
    IN  \A sz \in DOMAIN test : test[sz] <= Get(m, sz)

\* check_availability(combo)
check_availability(m, p, combo) ==
    LET inv == CounterAdd(m, p)
        test == Counter(combo)
    IN  \A sz \in DOMAIN test : test[sz] <= Get(inv, sz)

LedgerKeys == {250000, 125000}

\* Counters over a subset of the keys K with counts 0..n
Counters(K, n) == UNION {[D -> 0..n] : D \in SUBSET K}

LedgerCombos == UNION {[1..r -> LedgerKeys] : r \in 1..MaxComboLen}

\* after SpacerInventory(): the pools are what the inventory file holds
InitLedger ==
    /\ metal \in Counters(LedgerKeys, MaxCount)
    /\ plastic \in Counters(LedgerKeys, MaxCount)
    /\ file = snapshot(metal, plastic)
    /\ last = NoLast
    /\ call = NoCall
    /\ ret = NoRet
    /\ AppIdle

use_spacers(combo) ==
    LET out == UseLoop(metal, plastic, combo)
    IN  /\ metal' = out.metal
        /\ plastic' = out.plastic
        /\ file' = IF out.raised THEN file ELSE snapshot(out.metal, out.plastic)
        /\ last' = [op |-> "use_spacers", combo |-> combo, raised |-> out.raised,
                    pre_metal |-> metal, pre_plastic |-> plastic]
        /\ UNCHANGED <<findVars, runVars>>

CheckAvailability(combo) ==
    /\ last' = [op |-> "check_availability", combo |-> combo,
                result |-> check_availability(metal, plastic, combo),
                pre_metal |-> metal, pre_plastic |-> plastic]
    /\ UNCHANGED <<metal, plastic, file, findVars, runVars>>

NextLedger ==
    \/ \E combo \in LedgerCombos : use_spacers(combo)
    \/ \E combo \in LedgerCombos : CheckAvailability(combo)

SpecLedger == InitLedger /\ [][NextLedger]_vars

(***************************************************************************)
(* SpacerCalculatorApp.calculate_spacers                                   *)
(***************************************************************************)
max_stack_8 == 8     \* max_stack=8 of every call in calculate_spacers

\* variant of tight_tol: the searches take the tolerance of the job
tight_tol_OfJob == job.tol_plus

tight_tol == 1000    \* the 0.001 of the shoulder and male searches

\* variant of round3: the digits after the third are cut off
round3_CutOff(x) ==
    IF x < 0 THEN 0 - (((0 - x) \div 1000) * 1000) ELSE (x \div 1000) * 1000

\* round(x, 3) and the "%.3f" of the stack labels: nearest multiple of
\* 1000, ties to even, symmetric around 0
round3(x) ==
    LET a == IF x < 0 THEN 0 - x ELSE x
        q == a \div 1000
        m == a % 1000
        u == IF m < 500 THEN q
             ELSE IF m > 500 THEN q + 1
             ELSE IF q % 2 = 0 THEN q ELSE q + 1
    IN  IF x < 0 THEN 0 - (u * 1000) ELSE u * 1000

\* variant of get_deflection_offset: the heavy offset starts at 0.030
get_deflection_offset_AtLeast(material, thickness) ==
    IF material = "Aluminum" THEN 500
    ELSE IF material \in {"Galvanized", "Stainless"}
         THEN (IF thickness >= 30000 THEN 1500 ELSE 1000)
         ELSE 0

\* get_deflection_offset(material, thickness)
get_deflection_offset(material, thickness) ==
    IF material = "Aluminum" THEN 500
    ELSE IF material \in {"Galvanized", "Stainless"}
         THEN (IF thickness > 30000 THEN 1500 ELSE 1000)
         ELSE 0

\* deflect_offset of calculate_spacers
deflect_offset(j) ==
    IF j.auto_deflect # 0 THEN get_deflection_offset(j.material, j.thickness) ELSE 0

\* clearance = thickness * (Clearance % / 100); the percentage is held in
\* tenths of a percent
clearance(j) == (j.thickness * j.clearance_pct) \div 1000

\* cuts.extend([size] * count) over the tokens of the cut field
RECURSIVE ExpandCuts(_)
ExpandCuts(tokens) ==
    IF tokens = <<>> THEN <<>>
    ELSE [n \in 1..Head(tokens).count |-> Head(tokens).size] \o ExpandCuts(Tail(tokens))

\* total_cut_width += size * count
RECURSIVE total_cut_width(_)
total_cut_width(tokens) ==
    IF tokens = <<>> THEN 0
    ELSE Head(tokens).size * Head(tokens).count + total_cut_width(Tail(tokens))

\* variant of ShoulderCommit: the pools are left as they are
ShoulderCommit_Skipped(m, p, combo) == [metal |-> m, plastic |-> p]

\* the commit loop of the shoulder stack
RECURSIVE ShoulderCommit(_, _, _)
ShoulderCommit(m, p, combo) ==
    IF combo = <<>> THEN [metal |-> m, plastic |-> p]
    ELSE LET sz == Head(combo)
         IN  IF sz \in DOMAIN m
             THEN ShoulderCommit([m EXCEPT ![sz] = @ - 1], p, Tail(combo))
             ELSE IF sz \in DOMAIN p
             THEN ShoulderCommit(m, [p EXCEPT ![sz] = @ - 1], Tail(combo))
             ELSE ShoulderCommit(m, p, Tail(combo))

\* variant of StackCommit: only the metal branch is there
RECURSIVE StackCommit_MetalOnly(_, _, _)
StackCommit_MetalOnly(m, p, combo) ==
    IF combo = <<>> THEN [metal |-> m, plastic |-> p]
    ELSE LET sz == Head(combo)
         IN  IF sz \in DOMAIN m /\ m[sz] > 0
             THEN StackCommit_MetalOnly([m EXCEPT ![sz] = @ - 1], p, Tail(combo))
             ELSE StackCommit_MetalOnly(m, p, Tail(combo))

\* the commit loop of a female and of a male stack
RECURSIVE StackCommit(_, _, _)
StackCommit(m, p, combo) ==
    IF combo = <<>> THEN [metal |-> m, plastic |-> p]
    ELSE LET sz == Head(combo)
         IN  IF sz \in DOMAIN m /\ m[sz] > 0
             THEN StackCommit([m EXCEPT ![sz] = @ - 1], p, Tail(combo))
             ELSE IF sz \in DOMAIN p /\ p[sz] > 0
             THEN StackCommit(m, [p EXCEPT ![sz] = @ - 1], Tail(combo))
             ELSE StackCommit(m, p, Tail(combo))

\* variant of CounterUpdate: the counts of the combo replace the tally's
CounterUpdate_Overwrite(c, combo) ==
    [k \in DOMAIN c \cup Range(combo) |->
        IF k \in Range(combo)
        THEN Cardinality({n \in DOMAIN combo : combo[n] = k})
        ELSE c[k]]

\* Counter.update(combo)
CounterUpdate(c, combo) ==
    [k \in DOMAIN c \cup Range(combo) |->
        Get(c, k) + Cardinality({n \in DOMAIN combo : combo[n] = k})]

\* female_sum = sum(female_combo) + deflect_offset
FemaleSum(combo, offset) == sum(combo) + offset

\* variant of MaleTarget: the clearance is taken once
MaleTarget_OneClearance(fsum, kf, km, clr) == fsum - (kf + km + clr)

\* male_target = female_sum - (kf + km + 2 * clearance)
MaleTarget(fsum, kf, km, clr) == fsum - (kf + km + 2 * clr)

\* one entry of top_lines / bottom_lines: "<role> (<value:.3f>): <pieces>"
StackLine(role, idx, value, combo) ==
    [role |-> role, i |-> idx, value |-> round3(value), combo |-> combo]

\* one entry of the log of searches
Search(stage, idx, target, tol_plus, tol_minus, found) ==
    [stage |-> stage, i |-> idx, target |-> target,
     tol_plus |-> tol_plus, tol_minus |-> tol_minus,
     metal_inv |-> job_metal, plastic_inv |-> job_plastic,
     combo |-> found.combo, flag |-> found.flag]

Abort(msg) ==
    /\ pc' = "error"
    /\ error' = msg

\* the form and the inventories a run starts from
JobMetal250 == 250000
JobBoth125 == 125000
JobPlastic2 == 2000

JobCutFields ==
    { << [size |-> 375200, count |-> 1] >>,
      << [size |-> 375000, count |-> 2] >>,
      << [size |-> 375000, count |-> 1], [size |-> 250000, count |-> 1] >> }
JobMaterials ==
    { [thickness |-> 15000, clearance_pct |-> 167, material |-> "Aluminum",
       auto_deflect |-> 1, coil_width |-> 1000000],
      [thickness |-> 40000, clearance_pct |-> 50, material |-> "Stainless",
       auto_deflect |-> 1, coil_width |-> 1000000],
      [thickness |-> 15000, clearance_pct |-> 167, material |-> "Stainless",
       auto_deflect |-> 0, coil_width |-> 0] }
JobTols == {<<5000, 5000>>, <<0, 0>>}

Jobs ==
    { [cut_sizes |-> c, thickness |-> t.thickness, clearance_pct |-> t.clearance_pct,
       kf |-> 125000, km |-> 120000, coil_width |-> t.coil_width,
       tol_plus |-> tol[1], tol_minus |-> tol[2],
       material |-> t.material, auto_deflect |-> t.auto_deflect] :
      c \in JobCutFields, t \in JobMaterials, tol \in JobTols }

\* the thick metal key is always there, the key shared by both pools may be
\* missing from either, the shim is plastic only
JobMetals ==
    UNION {[D -> 0..MaxUnits] : D \in {{JobMetal250}, {JobMetal250, JobBoth125}}}
JobPlastics ==
    UNION {[D -> 0..MaxUnits] : D \in {{JobPlastic2}, {JobPlastic2, JobBoth125}}}

InitApp ==
    /\ job \in Jobs
    /\ metal \in JobMetals
    /\ plastic \in JobPlastics
    /\ file = snapshot(metal, plastic)
    /\ last = NoLast
    /\ call = NoCall
    /\ ret = NoRet
    /\ pc = "idle"
    /\ cuts = <<>>
    /\ i = 0
    /\ job_metal = EmptyCounter
    /\ job_plastic = EmptyCounter
    /\ female_combo = None
    /\ female_sum = 0
    /\ used_spacers = EmptyCounter
    /\ top_lines = <<>>
    /\ bottom_lines = <<>>
    /\ settings = <<>>
    /\ error = "none"
    /\ searches = <<>>
    /\ before = NoBefore

\* lines 503-527: the outputs are cleared, the form is read, the pools copied
Start ==
    /\ pc \in {"idle", "done", "error"}
    /\ top_lines' = <<>>
    /\ bottom_lines' = <<>>
    /\ used_spacers' = EmptyCounter
    /\ cuts' = ExpandCuts(job.cut_sizes)
    /\ job_metal' = metal
    /\ job_plastic' = plastic
    /\ i' = 0
    /\ female_combo' = None
    /\ female_sum' = 0
    /\ error' = "none"
    /\ searches' = <<>>
    /\ before' = [ran |-> pc # "idle", top |-> top_lines, bottom |-> bottom_lines,
                  error |-> error, settings |-> settings,
                  metal |-> metal, plastic |-> plastic]
    /\ pc' = "shoulder"
    /\ UNCHANGED <<job, settings, findVars, ledgerVars>>

\* lines 529-541
ShoulderStage ==
    /\ pc = "shoulder"
    /\ \E shoulder_clearance \in {clearance(job) + job.kf} :
       \E found \in {find_spacer_combo(shoulder_clearance, tight_tol, tight_tol,
                                       job_metal, job_plastic, TRUE, max_stack_8)} :
       \E after \in {ShoulderCommit(job_metal, job_plastic, found.combo)} :
           /\ searches' = Append(searches,
                   Search("shoulder", 0, shoulder_clearance, tight_tol, tight_tol, found))
           /\ IF found.combo = None
              THEN /\ Abort("No spacers found for shoulder")
                   /\ UNCHANGED <<job_metal, job_plastic, used_spacers, bottom_lines, i>>
              ELSE /\ job_metal' = after.metal
                   /\ job_plastic' = after.plastic
                   /\ used_spacers' = CounterUpdate(used_spacers, found.combo)
                   /\ bottom_lines' = Append(bottom_lines,
                          StackLine("Shoulder", 0, shoulder_clearance, found.combo))
                   /\ i' = 1
                   /\ pc' = IF cuts = <<>> THEN "finish" ELSE "female"
                   /\ UNCHANGED error
    /\ UNCHANGED <<job, cuts, female_combo, female_sum, top_lines, settings,
                   before, findVars, ledgerVars>>

\* variant of FemaleStage: a cut without a female stack is passed over
FemaleStage_PassesOver ==
    /\ pc = "female"
    /\ \E cut \in {cuts[i]} :
       \E found \in {find_spacer_combo(cut, job.tol_plus, job.tol_minus,
                                       job_metal, job_plastic, TRUE, max_stack_8)} :
       \E after \in {StackCommit(job_metal, job_plastic, found.combo)} :
           /\ searches' = Append(searches,
                   Search("female", i, cut, job.tol_plus, job.tol_minus, found))
           /\ IF found.combo = None
              THEN /\ pc' = IF i = Len(cuts) THEN "finish" ELSE "female"
                   /\ i' = i + 1
                   /\ UNCHANGED <<job_metal, job_plastic, used_spacers,
                                  female_combo, female_sum, error>>
              ELSE /\ job_metal' = after.metal
                   /\ job_plastic' = after.plastic
                   /\ used_spacers' = CounterUpdate(used_spacers, found.combo)
                   /\ female_combo' = found.combo
                   /\ female_sum' = FemaleSum(found.combo, deflect_offset(job))
                   /\ pc' = "male"
                   /\ UNCHANGED <<error, i>>
    /\ UNCHANGED <<job, cuts, top_lines, bottom_lines, settings,
                   before, findVars, ledgerVars>>

\* lines 545-557
FemaleStage ==
    /\ pc = "female"
    /\ \E cut \in {cuts[i]} :
       \E found \in {find_spacer_combo(cut, job.tol_plus, job.tol_minus,
                                       job_metal, job_plastic, TRUE, max_stack_8)} :
       \E after \in {StackCommit(job_metal, job_plastic, found.combo)} :
           /\ searches' = Append(searches,
                   Search("female", i, cut, job.tol_plus, job.tol_minus, found))
           /\ IF found.combo = None
              THEN /\ Abort(<<"No valid spacer combo found for cut", cut>>)
                   /\ UNCHANGED <<job_metal, job_plastic, used_spacers,
                                  female_combo, female_sum>>
              ELSE /\ job_metal' = after.metal
                   /\ job_plastic' = after.plastic
                   /\ used_spacers' = CounterUpdate(used_spacers, found.combo)
                   /\ female_combo' = found.combo
                   /\ female_sum' = FemaleSum(found.combo, deflect_offset(job))
                   /\ pc' = "male"
                   /\ UNCHANGED error
    /\ UNCHANGED <<job, cuts, i, top_lines, bottom_lines, settings,
                   before, findVars, ledgerVars>>

\* variant of MaleStage: the female stack goes on top for even cuts
MaleStage_EvenOnTop ==
    /\ pc = "male"
    /\ \E cut \in {cuts[i]}, female_on_top \in {i % 2 = 0} :
       \E male_target \in {MaleTarget(female_sum, job.kf, job.km, clearance(job))} :
       \E found \in {find_spacer_combo(male_target, tight_tol, tight_tol,
                                       job_metal, job_plastic, TRUE, max_stack_8)} :
       \E after \in {StackCommit(job_metal, job_plastic, found.combo)} :
       \E female_line \in {StackLine("Female", i, female_sum, female_combo)},
          male_line \in {StackLine("Male", i, male_target, found.combo)} :
           /\ searches' = Append(searches,
                   Search("male", i, male_target, tight_tol, tight_tol, found))
           /\ IF found.combo = None
              THEN /\ Abort(<<"No valid male spacer combo found for cut", cut>>)
                   /\ UNCHANGED <<job_metal, job_plastic, used_spacers,
                                  top_lines, bottom_lines, i>>
              ELSE /\ job_metal' = after.metal
                   /\ job_plastic' = after.plastic
                   /\ used_spacers' = CounterUpdate(used_spacers, found.combo)
                   /\ top_lines' = Append(top_lines,
                          IF female_on_top THEN female_line ELSE male_line)
                   /\ bottom_lines' = Append(bottom_lines,
                          IF female_on_top THEN male_line ELSE female_line)
                   /\ i' = i + 1
                   /\ pc' = IF i = Len(cuts) THEN "finish" ELSE "female"
                   /\ UNCHANGED error
    /\ UNCHANGED <<job, cuts, female_combo, female_sum, settings,
                   before, findVars, ledgerVars>>

\* lines 558-578
MaleStage ==
    /\ pc = "male"
    /\ \E cut \in {cuts[i]}, female_on_top \in {i % 2 = 1} :
       \E male_target \in {MaleTarget(female_sum, job.kf, job.km, clearance(job))} :
       \E found \in {find_spacer_combo(male_target, tight_tol, tight_tol,
                                       job_metal, job_plastic, TRUE, max_stack_8)} :
       \E after \in {StackCommit(job_metal, job_plastic, found.combo)} :
       \E female_line \in {StackLine("Female", i, female_sum, female_combo)},
          male_line \in {StackLine("Male", i, male_target, found.combo)} :
           /\ searches' = Append(searches,
                   Search("male", i, male_target, tight_tol, tight_tol, found))
           /\ IF found.combo = None
              THEN /\ Abort(<<"No valid male spacer combo found for cut", cut>>)
                   /\ UNCHANGED <<job_metal, job_plastic, used_spacers,
                                  top_lines, bottom_lines, i>>
              ELSE /\ job_metal' = after.metal
                   /\ job_plastic' = after.plastic
                   /\ used_spacers' = CounterUpdate(used_spacers, found.combo)
                   /\ top_lines' = Append(top_lines,
                          IF female_on_top THEN female_line ELSE male_line)
                   /\ bottom_lines' = Append(bottom_lines,
                          IF female_on_top THEN male_line ELSE female_line)
                   /\ i' = i + 1
                   /\ pc' = IF i = Len(cuts) THEN "finish" ELSE "female"
                   /\ UNCHANGED error
    /\ UNCHANGED <<job, cuts, female_combo, female_sum, settings,
                   before, findVars, ledgerVars>>

\* variant of Finish: the working pools are written back to the inventory
Finish_WriteBack ==
    /\ pc = "finish"
    /\ LET scrap == IF job.coil_width # 0
                    THEN job.coil_width - total_cut_width(job.cut_sizes)
                    ELSE 0
       IN  settings' = [thickness |-> job.thickness, clearance |-> job.clearance_pct,
                        knife_female |-> job.kf, knife_male |-> job.km,
                        coil_width |-> job.coil_width, scrap |-> round3(scrap)]
    /\ pc' = "done"
    /\ metal' = job_metal
    /\ plastic' = job_plastic
    /\ UNCHANGED <<job, cuts, i, job_metal, job_plastic, female_combo, female_sum,
                   used_spacers, top_lines, bottom_lines, error, searches,
                   before, findVars, file, last>>

\* lines 579-589
Finish ==
    /\ pc = "finish"
    /\ LET scrap == IF job.coil_width # 0
                    THEN job.coil_width - total_cut_width(job.cut_sizes)
                    ELSE 0
       IN  settings' = [thickness |-> job.thickness, clearance |-> job.clearance_pct,
                        knife_female |-> job.kf, knife_male |-> job.km,
                        coil_width |-> job.coil_width, scrap |-> round3(scrap)]
    /\ pc' = "done"
    /\ UNCHANGED <<job, cuts, i, job_metal, job_plastic, female_combo, female_sum,
                   used_spacers, top_lines, bottom_lines, error, searches,
                   before, findVars, ledgerVars>>

\* the operator types other width tolerances into the form after a
\* finished calculation; everything the last run left behind stays as it is
EditForm ==
    /\ pc = "done"
    /\ \E tol \in JobTols \ {<<job.tol_plus, job.tol_minus>>} :
           job' = [job EXCEPT !.tol_plus = tol[1], !.tol_minus = tol[2]]
    /\ pc' = "idle"
    /\ UNCHANGED <<cuts, i, job_metal, job_plastic, female_combo, female_sum,
                   used_spacers, top_lines, bottom_lines, settings, error,
                   searches, before, findVars, ledgerVars>>

NextApp ==
    \/ EditForm
    \/ Start
    \/ ShoulderStage
    \/ FemaleStage
    \/ MaleStage
    \/ Finish

SpecApp == InitApp /\ [][NextApp]_vars

(***************************************************************************)
(* Properties of find_spacer_combo (checked under SpecFind).               *)
(***************************************************************************)
Found == ret.flag \in {"True", "False"}

\* all multisets of 1..n pieces over the key set K, each written once, in
\* non-increasing thickness order
Combos(K, n) ==
    UNION {{c \in [1..r -> K] : \A j \in 1..(r - 1) : c[j] >= c[j + 1]} : r \in 1..n}

Multiplicity(c, k) == Cardinality({j \in DOMAIN c : c[j] = k})

BandOK(c) ==
    /\ call.target - call.tol_minus <= round4(sum(c))
    /\ round4(sum(c)) <= call.target + call.tol_plus

MetalOK(c) == \A k \in Range(c) : Multiplicity(c, k) <= Get(call.metal_inv, k)

PooledOK(c) ==
    \A k \in Range(c) :
        Multiplicity(c, k) <= Get(call.metal_inv, k) + Get(call.plastic_inv, k)

AllKeys == DOMAIN call.metal_inv \cup DOMAIN call.plastic_inv

\* the counts test of the pass that produced ret
PassOK(c) == IF ret.flag = "True" THEN MetalOK(c) ELSE PooledOK(c)

\* c comes before d in the walk: fewer pieces, or as many and thicker at the
\* first position where they differ
Precedes(c, d) ==
    \/ Len(c) < Len(d)
    \/ /\ Len(c) = Len(d)
       /\ \E j \in 1..Len(c) : c[j] > d[j] /\ \A h \in 1..(j - 1) : c[h] = d[h]

\* C1: every combo returned by find_spacer_combo, from the metal pass or
\* from the union pass, has its sum rounded to 4 decimal places inside the
\* closed band [target - tol_minus, target + tol_plus].
C1_SumWithinBand == Found => BandOK(ret.combo)

\* a union-pass result whose sum is moved by the rounding
C1_Witness ==
    /\ ret.flag = "False"
    /\ round4(sum(ret.combo)) # sum(ret.combo)
    /\ BandOK(ret.combo)

\* C2 as stated: no combo of smaller cardinality than the returned one is
\* within the band and within the counts of the snapshot (both pools).
C2_MinimalOverSnapshot ==
    Found => \A c \in Combos(AllKeys, Len(ret.combo) - 1) : ~(BandOK(c) /\ PooledOK(c))

\* C2 amended: minimality holds inside the pool the result was taken from.
\* A result flagged pure has no all-metal combo of smaller cardinality that
\* is within the band and the metal counts; a result flagged mixed has no
\* combo of smaller cardinality within the band and the pooled counts.
C2_MinimalWithinPass ==
    Found => \A c \in Combos(AllKeys, Len(ret.combo) - 1) : ~(BandOK(c) /\ PassOK(c))

\* a result of three pieces, so that smaller cardinalities were walked first
C2_Witness ==
    /\ Found
    /\ Len(ret.combo) = 3
    /\ \E c \in Combos(AllKeys, 2) : BandOK(c)

\* C3: with prefer_metal, the result is an all-metal combo flagged True
\* whenever some all-metal combo of 1..max_stack pieces is within the band
\* and the metal counts, and a union result (flag False) is returned only
\* when no such all-metal combo exists.
MetalFeasible ==
    \E c \in Combos(DOMAIN call.metal_inv, call.max_stack) : BandOK(c) /\ MetalOK(c)

C3_MetalPreferred ==
    (call.prefer_metal /\ ret # NoRet) =>
        /\ MetalFeasible => (ret.flag = "True" /\ MetalOK(ret.combo))
        /\ ret.flag = "False" => ~MetalFeasible

\* a pure result of two pieces although one piece of the other pool fits
C3_Witness ==
    /\ call.prefer_metal
    /\ ret.flag = "True"
    /\ Len(ret.combo) = 2
    /\ \E k \in DOMAIN call.plastic_inv : BandOK(<<k>>) /\ PooledOK(<<k>>)

\* C4: the returned combo is the first accepted candidate of its pass in
\* the walk by cardinality and then lexicographically over the descending
\* denominations: every candidate before it fails the band or the counts,
\* and the combo itself is listed in non-increasing thickness order.
C4_FirstInWalk ==
    Found =>
        /\ \A j \in 1..(Len(ret.combo) - 1) : ret.combo[j] >= ret.combo[j + 1]
        /\ BandOK(ret.combo) /\ PassOK(ret.combo)
        /\ \A c \in Combos(AllKeys, Len(ret.combo)) :
               Precedes(c, ret.combo) => ~(BandOK(c) /\ PassOK(c))

\* a tie: another candidate of the same cardinality is accepted too
C4_Witness ==
    /\ Found
    /\ \E c \in Combos(AllKeys, Len(ret.combo)) :
           /\ Len(c) = Len(ret.combo)
           /\ Precedes(ret.combo, c)
           /\ BandOK(c) /\ PassOK(c)

\* C5: a returned combo has between 1 and max_stack pieces and uses no
\* denomination more often than the metal count (metal pass) or the
\* metal-plus-plastic count (union pass) of the inventory passed in.
C5_WithinAvailability ==
    Found =>
        /\ Len(ret.combo) \in 1..call.max_stack
        /\ ret.flag = "True" => MetalOK(ret.combo)
        /\ ret.flag = "False" => PooledOK(ret.combo)

\* a union result that needs the units of both pools of one denomination
C5_Witness ==
    /\ ret.flag = "False"
    /\ \E k \in Range(ret.combo) :
           /\ Multiplicity(ret.combo, k) = 2
           /\ Get(call.metal_inv, k) = 1
           /\ Get(call.plastic_inv, k) = 1

(***************************************************************************)
(* Properties of SpacerInventory.use_spacers (checked under SpecLedger).   *)
(***************************************************************************)
Pooled(m, p, k) == Get(m, k) + Get(p, k)

UseFailed == last.op = "use_spacers" /\ last.raised

UseSucceeded == last.op = "use_spacers" /\ ~last.raised

\* C6: a use_spacers(combo) that raises leaves the metal and plastic counts
\* exactly as they were before the call.
C6_FailedUseLeavesLedger ==
    UseFailed => (metal = last.pre_metal /\ plastic = last.pre_plastic)

\* C7: after a use_spacers(combo) that succeeds on non-negative counts, the
\* pooled count of every denomination has dropped by its multiplicity in
\* the combo, denominations outside the combo are untouched in both pools,
\* and no count of either pool is negative.
C7_SuccessfulUseDecrements ==
    UseSucceeded =>
        /\ DOMAIN metal = DOMAIN last.pre_metal
        /\ DOMAIN plastic = DOMAIN last.pre_plastic
        /\ \A k \in LedgerKeys :
               /\ Pooled(metal, plastic, k)
                    = Pooled(last.pre_metal, last.pre_plastic, k)
                      - Multiplicity(last.combo, k)
               /\ k \notin Range(last.combo) =>
                      /\ Get(metal, k) = Get(last.pre_metal, k)
                      /\ Get(plastic, k) = Get(last.pre_plastic, k)
        /\ \A k \in DOMAIN metal : metal[k] >= 0
        /\ \A k \in DOMAIN plastic : plastic[k] >= 0

\* a successful use of a denomination whose metal key is held at 0, so
\* that the unit comes out of the plastic pool
C7_Witness ==
    /\ UseSucceeded
    /\ \E k \in Range(last.combo) :
           /\ k \in DOMAIN last.pre_metal
           /\ last.pre_metal[k] = 0
           /\ Get(plastic, k) = Get(last.pre_plastic, k) - 1

(***************************************************************************)
(* Properties of calculate_spacers (checked under SpecApp).                *)
(***************************************************************************)
\* C8: starting from non-negative metal and plastic counts, after every
\* stage commit of a run every count of the run's metal pool and of its
\* plastic pool is >= 0.
C8_CountsNeverNegative ==
    /\ \A k \in DOMAIN job_metal : job_metal[k] >= 0
    /\ \A k \in DOMAIN job_plastic : job_plastic[k] >= 0

\* C9: at every point of a run, the units of a denomination tallied as
\* used so far are at most the metal-plus-plastic count of that
\* denomination at run start.
C9_NoOverAllocation ==
    \A k \in DOMAIN used_spacers : used_spacers[k] <= Pooled(metal, plastic, k)

\* a finished run that used up a denomination held in both pools
C9_Witness ==
    /\ pc = "done"
    /\ \E k \in DOMAIN metal \cap DOMAIN plastic :
           /\ metal[k] > 0
           /\ plastic[k] > 0
           /\ Get(used_spacers, k) = metal[k] + plastic[k]

\* C10: every male search directly follows the successful female search of
\* the same cut and sees the pools with that female combo taken out; its
\* target is (sum of the female combo + deflection offset) minus
\* (femaleKnife + maleKnife + 2 * clearance), and its tolerance is
\* (0.001, 0.001) whatever the tolerances of the job.
C10_MaleTargetDerivation ==
    \A n \in DOMAIN searches :
        searches[n].stage = "male" =>
            /\ n > 1
            /\ searches[n - 1].stage = "female"
            /\ searches[n - 1].i = searches[n].i
            /\ searches[n - 1].combo # None
            /\ searches[n].target
                 = (sum(searches[n - 1].combo) + deflect_offset(job))
                   - (job.kf + job.km + 2 * clearance(job))
            /\ searches[n].tol_plus = 1000
            /\ searches[n].tol_minus = 1000
            /\ \A k \in DOMAIN metal \cup DOMAIN plastic :
                   Pooled(searches[n].metal_inv, searches[n].plastic_inv, k)
                     = Pooled(searches[n - 1].metal_inv, searches[n - 1].plastic_inv, k)
                       - Multiplicity(searches[n - 1].combo, k)

\* a male stack found for a cut whose female stack does not sum to the
\* requested width, in a job with an offset and with wide tolerances
C10_Witness ==
    /\ Len(searches) >= 3
    /\ searches[Len(searches)].stage = "male"
    /\ searches[Len(searches)].combo # None
    /\ sum(searches[Len(searches) - 1].combo) # searches[Len(searches) - 1].target
    /\ deflect_offset(job) # 0
    /\ job.tol_plus # 1000

\* the pool each piece of the shoulder stack is taken from by the loop of
\* lines 535-539
RECURSIVE ShoulderSources(_, _, _)
ShoulderSources(m, p, combo) ==
    IF combo = <<>> THEN <<>>
    ELSE LET sz == Head(combo)
         IN  IF sz \in DOMAIN m
             THEN <<"Metal">> \o ShoulderSources([m EXCEPT ![sz] = @ - 1], p, Tail(combo))
             ELSE IF sz \in DOMAIN p
             THEN <<"Plastic">> \o ShoulderSources(m, [p EXCEPT ![sz] = @ - 1], Tail(combo))
             ELSE <<"Neither">> \o ShoulderSources(m, p, Tail(combo))

\* the pool each piece of a female or male stack is taken from by the loops
\* of lines 551-555 and 567-571
RECURSIVE StackSources(_, _, _)
StackSources(m, p, combo) ==
    IF combo = <<>> THEN <<>>
    ELSE LET sz == Head(combo)
         IN  IF sz \in DOMAIN m /\ m[sz] > 0
             THEN <<"Metal">> \o StackSources([m EXCEPT ![sz] = @ - 1], p, Tail(combo))
             ELSE IF sz \in DOMAIN p /\ p[sz] > 0
             THEN <<"Plastic">> \o StackSources(m, [p EXCEPT ![sz] = @ - 1], Tail(combo))
             ELSE <<"Neither">> \o StackSources(m, p, Tail(combo))

\* mat of _update_spacer_summary and of parse_stack_line_pdf
ReportedMaterial(size) == IF size \in DOMAIN plastic THEN "Plastic" ELSE "Metal"

(***************************************************************************)
(* The deflection offset on its own: one reading of the material menu, the *)
(* thickness field and the auto-deflect box, and the offset they give.     *)
(***************************************************************************)

\* the three entries of the material menu, and a tag a loaded job file can
\* put into material_var
DeflectMaterials == {"Aluminum", "Galvanized", "Stainless", "Copper"}

DeflectThicknesses == {15000, 29000, 29900, 30000, 30100, 31000, 40000, 60000}

InitDeflect ==
    /\ \E material \in DeflectMaterials, thickness \in DeflectThicknesses,
          auto_deflect \in {0, 1} :
            call = [op |-> "deflect", material |-> material,
                    thickness |-> thickness, auto_deflect |-> auto_deflect]
    /\ ret = NoRet
    /\ metal = EmptyCounter
    /\ plastic = EmptyCounter
    /\ file = NoFile
    /\ last = NoLast
    /\ AppIdle

\* lines 522-524
CallDeflect ==
    /\ call.op = "deflect"
    /\ ret = NoRet
    /\ ret' = [offset |-> deflect_offset(call)]
    /\ UNCHANGED <<call, ledgerVars, runVars>>

NextDeflect == CallDeflect

SpecDeflect == InitDeflect /\ [][NextDeflect]_vars

(***************************************************************************)
(* Find and commit, step after step on the same pools: the search and the  *)
(* commit loop of a female stage, for a width that one piece of a          *)
(* denomination held by both pools gives.                                  *)
(***************************************************************************)

\* 0.125 next to the 0.063 and 0.062 of the metal defaults, and a plastic
\* piece one thousandth thicker
DrainMetalKeys == {JobBoth125, 63000, 62000}
DrainPlasticKeys == {JobBoth125, 126000}
DrainTols == {<<0, 0>>, <<1000, 1000>>}

InitDrain ==
    /\ metal \in [DrainMetalKeys -> 0..MaxCount]
    /\ plastic \in [DrainPlasticKeys -> 0..MaxCount]
    /\ \E tol \in DrainTols :
           call = [op |-> "drain", target |-> JobBoth125,
                   tol_plus |-> tol[1], tol_minus |-> tol[2]]
    /\ ret = NoRet
    /\ file = NoFile
    /\ last = NoLast
    /\ AppIdle

\* variant of FindThenCommit: the commit looks at the plastic pool first
FindThenCommit_PlasticFirst ==
    /\ call.op = "drain"
    /\ ret.flag # "None"
    /\ \E found \in {find_spacer_combo(call.target, call.tol_plus, call.tol_minus,
                                       metal, plastic, TRUE, max_stack_8)} :
       \E after \in {StackCommit(plastic, metal, found.combo)} :
           /\ ret' = [combo |-> found.combo, flag |-> found.flag,
                      metal_inv |-> metal, plastic_inv |-> plastic]
           /\ metal' = IF found.combo = None THEN metal ELSE after.plastic
           /\ plastic' = IF found.combo = None THEN plastic ELSE after.metal
    /\ UNCHANGED <<call, file, last, runVars>>

\* lines 546-555: the search, and on success its commit loop; a search that
\* finds nothing raises, and no step follows it
FindThenCommit ==
    /\ call.op = "drain"
    /\ ret.flag # "None"
    /\ \E found \in {find_spacer_combo(call.target, call.tol_plus, call.tol_minus,
                                       metal, plastic, TRUE, max_stack_8)} :
       \E after \in {StackCommit(metal, plastic, found.combo)} :
           /\ ret' = [combo |-> found.combo, flag |-> found.flag,
                      metal_inv |-> metal, plastic_inv |-> plastic]
           /\ metal' = IF found.combo = None THEN metal ELSE after.metal
           /\ plastic' = IF found.combo = None THEN plastic ELSE after.plastic
    /\ UNCHANGED <<call, file, last, runVars>>

NextDrain == FindThenCommit

SpecDrain == InitDrain /\ [][NextDrain]_vars

\* the pools a run can draw on
RunKeys == DOMAIN metal \cup DOMAIN plastic

Running == pc \in {"female", "male", "finish", "done", "error"}

\* the units of denomination k in the combos found by the first n searches
RECURSIVE Committed(_, _, _)
Committed(log, n, k) ==
    IF n = 0 THEN 0
    ELSE Multiplicity(log[n].combo, k) + Committed(log, n - 1, k)

\* the units of denomination k in the combos listed in the lines
RECURSIVE Listed(_, _)
Listed(lines, k) ==
    IF lines = <<>> THEN 0
    ELSE Multiplicity(Head(lines).combo, k) + Listed(Tail(lines), k)

\* C11: the first search of every run is the shoulder search, with target
\* clearance + femaleKnife and tolerance (0.001, 0.001) whatever the job's
\* tolerances; no cut stage is searched before it.  When it succeeds the
\* shoulder stack is the first entry of the bottom line; when it fails the
\* run aborts with the shoulder error and no cut stage is searched.
C11_ShoulderFirst ==
    /\ Running => searches # <<>>
    /\ searches # <<>> =>
           /\ searches[1].stage = "shoulder"
           /\ searches[1].target = clearance(job) + job.kf
           /\ searches[1].tol_plus = 1000
           /\ searches[1].tol_minus = 1000
           /\ \A n \in 2..Len(searches) : searches[n].stage \in {"female", "male"}
           /\ searches[1].combo # None =>
                  /\ bottom_lines # <<>>
                  /\ bottom_lines[1].role = "Shoulder"
                  /\ bottom_lines[1].combo = searches[1].combo
           /\ searches[1].combo = None =>
                  /\ Len(searches) = 1
                  /\ pc = "error"
                  /\ error = "No spacers found for shoulder"
                  /\ top_lines = <<>>
                  /\ bottom_lines = <<>>

\* a shoulder stack heads the bottom line of a job with wide tolerances,
\* and the stacks of a cut follow it
C11_Witness ==
    /\ job.tol_plus = 5000
    /\ Len(bottom_lines) >= 2
    /\ bottom_lines[1].role = "Shoulder"
    /\ searches[1].tol_plus = 1000

\* C12: after a successful run of N cuts the top line holds N stacks and
\* the bottom line N + 1, the shoulder first; for odd i the female stack of
\* cut i is the i-th top entry and its male stack the (i+1)-th bottom
\* entry, for even i the male stack is on top and the female on the bottom.
C12_ParityRule ==
    pc = "done" =>
        /\ Len(top_lines) = Len(cuts)
        /\ Len(bottom_lines) = Len(cuts) + 1
        /\ bottom_lines[1].role = "Shoulder"
        /\ \A n \in 1..Len(cuts) :
               LET upper == top_lines[n]
                   lower == bottom_lines[n + 1]
                   female == IF n % 2 = 1 THEN upper ELSE lower
                   male == IF n % 2 = 1 THEN lower ELSE upper
               IN  /\ female.role = "Female" /\ female.i = n
                   /\ female.combo = searches[2 * n].combo
                   /\ searches[2 * n].stage = "female"
                   /\ male.role = "Male" /\ male.i = n
                   /\ male.combo = searches[2 * n + 1].combo
                   /\ searches[2 * n + 1].stage = "male"

\* a finished run of two cuts: one odd, one even
C12_Witness ==
    /\ pc = "done"
    /\ Len(cuts) = 2
    /\ top_lines[2].role = "Male"

\* C13: every stage that succeeds is taken out of the run's pools at once,
\* and a stage that fails later undoes nothing: at every point of a run,
\* also after an abort, the pooled count of each denomination is its count
\* at run start minus the units of all stacks found so far, and the tally
\* holds those units.
C13_NoRollback ==
    Running =>
        \A k \in RunKeys :
            /\ Pooled(job_metal, job_plastic, k)
                 = Pooled(metal, plastic, k) - Committed(searches, Len(searches), k)
            /\ Get(used_spacers, k) = Committed(searches, Len(searches), k)

\* a run that aborts at a male stage or later, with stacks taken before
C13_Witness ==
    /\ pc = "error"
    /\ Len(searches) >= 3
    /\ \E k \in RunKeys : Pooled(job_metal, job_plastic, k) < Pooled(metal, plastic, k)

\* C14: a run never changes the inventory of the application: at every
\* point of a run, and after it ended either way, inventory.metal and
\* inventory.plastic are what they were when the run started; so a second
\* run of the same form ends with the same stack lines and the same
\* outcome as the run before it.
C14_RunWorksOnCopy ==
    /\ pc # "idle" => (metal = before.metal /\ plastic = before.plastic)
    /\ (pc \in {"done", "error"} /\ before.ran) =>
           /\ top_lines = before.top
           /\ bottom_lines = before.bottom
           /\ error = before.error

\* a successful run repeated with the same form
C14_Witness ==
    /\ pc = "done"
    /\ before.ran
    /\ Len(top_lines) >= 1
    /\ \E k \in RunKeys : Get(used_spacers, k) > 0

\* C15: the deflection offset is 0 with auto-deflect off; with it on,
\* 0.0005 for Aluminum, 0.0015 for Galvanized or Stainless thicker than
\* 0.030, 0.0010 for Galvanized or Stainless up to and including 0.030, and
\* 0 for every other material tag; nothing else enters it.
C15_DeflectionTable ==
    (call.op = "deflect" /\ ret # NoRet) =>
        ret.offset =
            IF call.auto_deflect = 0 THEN 0
            ELSE CASE call.material = "Aluminum" -> 500
                   [] call.material \in {"Galvanized", "Stainless"}
                        /\ call.thickness > 30000 -> 1500
                   [] call.material \in {"Galvanized", "Stainless"}
                        /\ call.thickness <= 30000 -> 1000
                   [] OTHER -> 0

\* Stainless of exactly 0.030 with auto-deflect on takes the light offset
C15_Witness ==
    /\ call.op = "deflect"
    /\ ret # NoRet
    /\ call.material = "Stainless"
    /\ call.thickness = 30000
    /\ call.auto_deflect = 1
    /\ ret.offset = 1000

\* C16: a failure at a cut stage is reported with the 1-based index of the
\* failing cut: the number carried by the error of an aborted female or
\* male stage is the position of that cut in the run.
C16_ErrorNamesCutIndex ==
    (pc = "error" /\ Len(searches) >= 2) =>
        error[2] = searches[Len(searches)].i

\* C17: after a successful run the tally of every denomination is the
\* number of its pieces over the shoulder stack and all female and male
\* stacks of the two lines, and is the drop of the run's pooled
\* metal-plus-plastic count of that denomination from run start to run end.
C17_TallyOnSuccess ==
    pc = "done" =>
        \A k \in RunKeys \cup DOMAIN used_spacers :
            /\ Get(used_spacers, k) = Listed(top_lines, k) + Listed(bottom_lines, k)
            /\ Get(used_spacers, k)
                 = Pooled(before.metal, before.plastic, k)
                   - Pooled(job_metal, job_plastic, k)

\* a finished run that took one denomination for several stacks
C17_Witness ==
    /\ pc = "done"
    /\ \E k \in RunKeys :
           /\ Get(used_spacers, k) >= 3
           /\ Listed(bottom_lines, k) >= 2
           /\ Listed(top_lines, k) >= 1

\* coil width minus the widths of all cuts of the run, 0 without a coil width
ExactScrap == IF job.coil_width # 0 THEN job.coil_width - sum(cuts) ELSE 0

InRun == pc \in {"shoulder", "female", "male", "finish", "error"}

\* what the searches of a run are given: targets made of the cut widths, the
\* knives, the clearance and the deflection offset, the tolerances of the
\* form or the fixed 0.001; the coil width is in none of them
SearchesLeaveCoilOut ==
    pc # "idle" =>
        \A n \in DOMAIN searches :
            LET s == searches[n]
            IN  /\ s.stage = "shoulder" => s.target = clearance(job) + job.kf
                /\ s.stage = "female" =>
                       /\ s.target = cuts[s.i]
                       /\ s.tol_plus = job.tol_plus /\ s.tol_minus = job.tol_minus
                /\ s.stage = "male" =>
                       s.target = sum(searches[n - 1].combo) + deflect_offset(job)
                                    - (job.kf + job.km + 2 * clearance(job))

\* C18 as stated: after a successful run the stored scrap is exactly
\* coilWidth minus the sum of width times count over the cut tokens (0
\* without a coil width), the coil width is no part of what the searches
\* are given, and a run that has not succeeded leaves the stored scrap as
\* it was.
C18_ScrapExact ==
    /\ pc = "done" => settings.scrap = ExactScrap
    /\ SearchesLeaveCoilOut
    /\ InRun => settings = before.settings

\* C18: after a successful run the stored scrap is coilWidth minus the sum
\* of width times count over the cut tokens, rounded to three decimal
\* places (0 without a coil width); the coil width is no part of what the
\* searches are given; a run that has not succeeded leaves the stored
\* scrap, and the settings it belongs to, as they were.
C18_ScrapRounded ==
    /\ pc = "done" =>
           /\ settings.scrap % 1000 = 0
           /\ settings.scrap - ExactScrap <= 500
           /\ ExactScrap - settings.scrap <= 500
           /\ settings.coil_width = job.coil_width
    /\ SearchesLeaveCoilOut
    /\ InRun => settings = before.settings

\* an aborted run after a successful one: the scrap on file is still the
\* rounded scrap of the successful run, not the exact difference
C18_Witness ==
    /\ pc = "error"
    /\ DOMAIN settings # {}
    /\ settings.coil_width # 0
    /\ settings.scrap # settings.coil_width - sum(cuts)

\* the pools the pieces of the n-th search's stack were taken from
SourcesOf(n) ==
    LET s == searches[n]
    IN  IF s.stage = "shoulder"
        THEN ShoulderSources(s.metal_inv, s.plastic_inv, s.combo)
        ELSE StackSources(s.metal_inv, s.plastic_inv, s.combo)

\* C19: the material reported for a piece of a stack, and for a tally
\* entry, is the pool the unit was taken from: after a successful run,
\* every piece taken from metal is reported as Metal, every piece taken
\* from plastic as Plastic, also for a denomination that both pools hold.
C19_ReportedMaterialIsSource ==
    pc = "done" =>
        \A n \in DOMAIN searches :
            \A j \in DOMAIN searches[n].combo :
                SourcesOf(n)[j] = ReportedMaterial(searches[n].combo[j])

\* the step just taken had a positive metal count of the denomination
DrainFromMetal == ret.flag # "pending" /\ ret.metal_inv[call.target] > 0

\* the step just taken had no metal of the denomination left, and plastic
DrainFromPlastic ==
    /\ ret.flag # "pending"
    /\ ret.metal_inv[call.target] = 0
    /\ ret.plastic_inv[call.target] > 0

TookFromMetal ==
    /\ ret.combo = <<call.target>>
    /\ ret.flag = "True"
    /\ metal = [ret.metal_inv EXCEPT ![call.target] = @ - 1]
    /\ plastic = ret.plastic_inv

TookFromPlastic ==
    /\ ret.combo = <<call.target>>
    /\ ret.flag = "False"
    /\ metal = ret.metal_inv
    /\ plastic = [ret.plastic_inv EXCEPT ![call.target] = @ - 1]

\* C21 as stated: for a denomination of both pools and a target that one
\* piece of it gives, every find-then-commit step returns that piece
\* flagged metal and lowers the metal count while the metal count is
\* positive, and returns it from plastic and lowers the plastic count once
\* the metal count is 0.
C21_MetalDrainedFirst ==
    /\ DrainFromMetal => TookFromMetal
    /\ DrainFromPlastic => TookFromPlastic

\* some other stack of the pools is within the band before the step: an
\* all-metal one, or a single piece of another denomination
OtherFit ==
    \/ \E c \in Combos(DOMAIN ret.metal_inv, MaxComboLen) :
           /\ c # <<call.target>>
           /\ BandOK(c)
           /\ \A k \in Range(c) : Multiplicity(c, k) <= ret.metal_inv[k]
    \/ \E k \in DOMAIN ret.plastic_inv \ {call.target} :
           ret.plastic_inv[k] > 0 /\ BandOK(<<k>>)

\* C21: for a denomination of both pools and a target that one piece of it
\* gives and that no other all-metal stack and no single piece of another
\* denomination gives, every find-then-commit step returns that piece
\* flagged metal and lowers the metal count while the metal count is
\* positive, and returns it from plastic and lowers the plastic count once
\* the metal count is 0.
C21_MetalDrainedFirstAmongFits ==
    /\ (DrainFromMetal /\ ~OtherFit) => TookFromMetal
    /\ (DrainFromPlastic /\ ~OtherFit) => TookFromPlastic

\* the second step of the example: the last metal piece is gone, the piece
\* comes from plastic
C21_Witness ==
    /\ DrainFromPlastic
    /\ ~OtherFit
    /\ TookFromPlastic
    /\ \E k \in DOMAIN metal : metal[k] > 0

IsPrefix(a, b) == Len(a) <= Len(b) /\ SubSeq(b, 1, Len(a)) = a

\* the searches of the run so far are shoulder, female 1, male 1, female 2,
\* ..., only the last of them can have failed, and the run has ended in an
\* error exactly when it has
StagesInOrder ==
    pc # "idle" =>
        /\ \A n \in DOMAIN searches :
               /\ n = 1 => searches[n].stage = "shoulder"
               /\ (n > 1 /\ n % 2 = 0) =>
                      (searches[n].stage = "female" /\ searches[n].i = n \div 2)
               /\ (n > 1 /\ n % 2 = 1) =>
                      (searches[n].stage = "male" /\ searches[n].i = (n - 1) \div 2)
               /\ n < Len(searches) => searches[n].combo # None
        /\ pc = "error" <=>
               (searches # <<>> /\ searches[Len(searches)].combo = None)
        /\ pc = "error" => error # "none"
        /\ pc = "done" => (error = "none" /\ Len(searches) = 1 + 2 * Len(cuts))

\* a run that has not ended stands before a stage it can take: the stage
\* actions are guarded by pc alone, and a cut stage has its cut
NeverStuck ==
    /\ pc \in {"off", "idle", "shoulder", "female", "male", "finish", "done", "error"}
    /\ pc \in {"female", "male"} => i \in 1..Len(cuts)
    /\ pc = "male" => female_combo # None

\* the stages a run of these cuts can still take
StagesLeft ==
    IF pc \in {"done", "error"} THEN 0
    ELSE 2 + 2 * Len(cuts) - Len(searches)

\* a step of a run uses up a stage, adds at most one search and only
\* appends to the lines; after an error the next thing that happens is a
\* new run
RunStep ==
    /\ pc = "error" => (pc' = "shoulder" /\ searches' = <<>>)
    /\ pc \in {"shoulder", "female", "male", "finish"} =>
           /\ StagesLeft' < StagesLeft
           /\ StagesLeft' >= 0
           /\ IsPrefix(searches, searches')
           /\ Len(searches') <= Len(searches) + 1
           /\ IsPrefix(top_lines, top_lines')
           /\ IsPrefix(bottom_lines, bottom_lines')
           /\ pc' \in {"female", "male", "finish", "done", "error"}

\* C22: every run ends (it is never stuck and every step uses up one of
\* its finitely many stages), in success or in a reported error and never
\* both; its stages are searched in the order shoulder, female 1, male 1,
\* female 2, male 2, ...; after the first stage that fails nothing more is
\* searched, committed or retried; and a stack once recorded in a line is
\* not changed by a later stage.
C22_OneOutcomeInOrder ==
    /\ [](StagesInOrder /\ NeverStuck)
    /\ [][RunStep]_vars

\* a run that got through a whole cut and failed at the next one
C22_Witness ==
    /\ pc = "error"
    /\ Len(searches) = 4
    /\ Len(top_lines) = 1
    /\ Len(bottom_lines) = 2

\* C23: when a run has ended, by success or by an abort at any stage, the
\* tally of every denomination is the number of its pieces over the
\* stacks listed in the top line and the bottom line.
C23_TallyMatchesLinesAtEnd ==
    pc \in {"done", "error"} =>
        \A k \in RunKeys \cup DOMAIN used_spacers :
            Get(used_spacers, k) = Listed(top_lines, k) + Listed(bottom_lines, k)

\* C24: on a ledger without negative counts check_availability(combo) is
\* True exactly when use_spacers(combo) on that ledger would run through
\* without raising, that is when no denomination is asked for more often
\* than both pools hold together; and check_availability leaves the ledger
\* as it found it.
C24_CheckAgreesWithUse ==
    /\ last.op = "check_availability" =>
           /\ last.result = ~UseLoop(metal, plastic, last.combo).raised
           /\ last.result = (\A k \in Range(last.combo) :
                                Multiplicity(last.combo, k) <= Pooled(metal, plastic, k))
           /\ metal = last.pre_metal
           /\ plastic = last.pre_plastic
    /\ last.op = "use_spacers" =>
           last.raised = (\E k \in Range(last.combo) :
                             Multiplicity(last.combo, k)
                               > Pooled(last.pre_metal, last.pre_plastic, k))

\* a stack that is available only with plastic pieces, after earlier use
C24_Witness ==
    /\ last.op = "check_availability"
    /\ last.result
    /\ Len(last.combo) >= 2
    /\ \E k \in Range(last.combo) : Multiplicity(last.combo, k) > Get(metal, k)
    /\ file # snapshot(metal, plastic)

\* the call with both check boxes as the form starts them: set
WithBoxesSet ==
    find_spacer_combo(call.target, call.tol_plus, call.tol_minus,
                      call.metal_inv, call.plastic_inv,
                      call.prefer_metal, call.max_stack)

====
